---- MODULE Spec2Model ----
(***************************************************************************)
(* A model of generate_tech_tree.py (TechTreeGenerator): the record parser *)
(* that fills the entity store, the graph builder, the reachability sizer, *)
(* the cycle detector and the tree renderer.                               *)
(*                                                                         *)
(* Two specifications share the variables:                                 *)
(*   Spec      - the graph engine run of run_generation_process on a       *)
(*               store that scanning has left behind (build, size,         *)
(*               detect cycles, render);                                   *)
(*   ParseSpec - scan_all_technology_files over source files given as      *)
(*               token sequences, followed by the graph builder.           *)
(*                                                                         *)
(* In Spec identifiers are naturals (their rank in string order, which is  *)
(* what sorted() compares); in ParseSpec they are the words of the text.   *)
(***************************************************************************)
EXTENDS Integers, Sequences, FiniteSets, TLC

VARIABLES
    all_technologies,   \* the store: a dict, kept as the sequence of its values in insertion order
    overlong_tech_ids,  \* self.overlong_tech_ids
    phase,              \* position of run_generation_process
    successor_counts,   \* history: cnt of _precompute_overlong_trees, per identifier
    ret,                \* generate_tech_tree_content: the call in progress or its return value
    render_stack,       \* active _build_tech_subtree calls, innermost last
    path_set,           \* path_set of the rendering in progress
    expanded_set,       \* expanded_set of the rendering in progress
    lines,              \* lines appended so far by the rendering in progress
    subtree_log,        \* history: the nodes _build_tech_subtree descended into, in order
    render_steps,       \* history: loop iterations and returns of the rendering so far
    dfs_stack,          \* active dfs_detect_cycle calls, innermost last
    visited,            \* detect_circular_dependencies: visited
    rec_stack,          \* detect_circular_dependencies: rec_stack
    cycles,             \* detect_circular_dependencies: cycles
    dfs_next,           \* position in the store of the outer for loop of the detector
    dfs_log,            \* history: the nodes dfs_detect_cycle entered, in order
    dfs_steps,          \* history: root calls, loop iterations and returns of the search so far
    scanned,            \* history: names of the files parsed so far, in order
    raised,             \* history: the positions in scanned of the parses that raised
    start_marked        \* history: identifiers created from a body carrying start_tech = yes

vars == <<all_technologies, overlong_tech_ids, phase, successor_counts, ret, render_stack,
          path_set, expanded_set, lines, subtree_log, render_steps, dfs_stack, visited,
          rec_stack, cycles, dfs_next, dfs_log, dfs_steps, scanned, raised, start_marked>>

sizeVars   == <<overlong_tech_ids, successor_counts>>
renderVars == <<ret, render_stack, path_set, expanded_set, lines, subtree_log, render_steps>>
detectVars == <<dfs_stack, visited, rec_stack, cycles, dfs_next, dfs_log, dfs_steps>>
parseVars  == <<scanned, raised, start_marked>>

(***************************************************************************)
(* Bounds of the model.                                                    *)
(***************************************************************************)
MaxRefs == 4          \* prerequisite references in a small store, all entities together
LargeChain == 102     \* entities of the long chain store
MaxFiles == 2         \* files parsed in one scan
LoopDepth == 12       \* a loop of the code is run for up to 2^LoopDepth iterations
MaxLines == 120       \* a rendering is cut off once it holds this many lines

LONG_TREE_THRESHOLD == 100

(***************************************************************************)
(* Sequences and the store.                                                *)
(***************************************************************************)
Elems(s) == {s[i] : i \in DOMAIN s}

InSeq(x, s) == \E i \in DOMAIN s : s[i] = x

SeqsUpTo(S, n) == UNION {[1..k -> S] : k \in 0..n}

NoDuplicates(s) == \A i, j \in DOMAIN s : s[i] = s[j] => i = j

\* Technology(tech_id): the dataclass with its defaults
Technology(tech_id) ==
    [tech_id |-> tech_id, research_area |-> "", tier_level |-> 0,
     prerequisite_tech_ids |-> <<>>, unlocked_tech_ids |-> <<>>]

Keys(store) == {store[i].tech_id : i \in DOMAIN store}

Has(store, tech_id) == \E i \in DOMAIN store : store[i].tech_id = tech_id

IndexOf(store, tech_id) == CHOOSE i \in DOMAIN store : store[i].tech_id = tech_id

Get(store, tech_id) == store[IndexOf(store, tech_id)]

(***************************************************************************)
(* The text of a source file, as the sequence of its tokens: a line break, *)
(* a run of blanks, one of = { } #, or a word (a run of word characters,   *)
(* digits included).  The regular expressions of lines 75-84 are read on   *)
(* this sequence: \s* skips line breaks and blanks, ^ stands at the start  *)
(* of the text and behind every line break.                                *)
(***************************************************************************)
NL == "NL"
SP == "SP"

\* a run of more than 4300 digits: int() of it raises ValueError
OverlongDigits == "9999...9"

IntOf == ("0" :> 0) @@ ("1" :> 1) @@ ("2" :> 2)

IsDigits(t) == t \in DOMAIN IntOf \cup {OverlongDigits}

IsSpace(t) == t \in {NL, SP}

IsWord(t) == t \notin {NL, SP, "=", "{", "}", "#", ""}

\* the token at position i, "" behind the end of the text
At(content, i) == IF i \in DOMAIN content THEN content[i] ELSE ""

Min(S) == CHOOSE x \in S : \A y \in S : x <= y

SortedSeq(S) ==
    [k \in 1..Cardinality(S) |-> CHOOSE x \in S : Cardinality({y \in S : y < x}) = k - 1]

\* \s* from position q on: the first position that holds no blank
SkipSpaces(content, q) ==
    Min({i \in q..(Len(content) + 1) : ~IsSpace(At(content, i))})

\* behind a key at position p: \s*=\s*, giving the position of what follows, 0 if no = does
AssignValuePos(content, p) ==
    LET a == SkipSpaces(content, p + 1)
    IN  IF At(content, a) = "=" THEN SkipSpaces(content, a + 1) ELSE 0

\* what a regular expression asks of the token behind the = sign
ValueIs(kind, t) ==
    CASE kind = "word"   -> IsWord(t)
      [] kind = "digits" -> IsDigits(t)
      [] kind = "brace"  -> t = "{"
      [] kind = "yes"    -> t = "yes"

\* regex.search for key\s*=\s*value: the position of the first match, 0 if there is none
SearchKey(content, key, kind) ==
    LET hits == {p \in DOMAIN content :
                    /\ content[p] = key
                    /\ AssignValuePos(content, p) # 0
                    /\ ValueIs(kind, At(content, AssignValuePos(content, p)))}
    IN  IF hits = {} THEN 0 ELSE Min(hits)

(***************************************************************************)
(* _remove_comments_from_content                                           *)
(***************************************************************************)
\* content.splitlines()
SplitLines(content) ==
    LET nls   == SortedSeq({i \in DOMAIN content : content[i] = NL})
        n     == Len(nls)
        count == IF n = 0 THEN (IF content = <<>> THEN 0 ELSE 1)
                 ELSE IF nls[n] < Len(content) THEN n + 1 ELSE n
    IN  [k \in 1..count |->
            SubSeq(content, IF k = 1 THEN 1 ELSE nls[k - 1] + 1,
                            IF k <= n THEN nls[k] - 1 ELSE Len(content))]

\* line 244: line.lstrip().startswith('#')
IsCommentLine(line) == At(line, SkipSpaces(line, 1)) = "#"

\* lines 246-247: what stands before the first #
BeforeHash(line) ==
    LET hashes == {i \in DOMAIN line : line[i] = "#"}
    IN  IF hashes = {} THEN line ELSE SubSeq(line, 1, Min(hashes) - 1)

\* '\n'.join(lines)
RECURSIVE JoinLines(_, _)
JoinLines(ls, k) ==
    IF k > Len(ls) THEN <<>>
    ELSE IF k = Len(ls) THEN ls[k]
    ELSE ls[k] \o <<NL>> \o JoinLines(ls, k + 1)

_remove_comments_from_content(content) ==
    LET Kept(line) == ~IsCommentLine(line)
        kept == SelectSeq(SplitLines(content), Kept)
    IN  JoinLines([k \in 1..Len(kept) |-> BeforeHash(kept[k])], 1)

(***************************************************************************)
(* _extract_braced_block                                                   *)
(***************************************************************************)
\* the for loop over the characters from start_pos on, as the state of its iteration
ExtractDone(content, s) == s.closed \/ s.i > Len(content)

ExtractStep(content, s) ==
    IF content[s.i] = "{" THEN [s EXCEPT !.brace_depth = @ + 1, !.i = @ + 1]
    ELSE IF content[s.i] = "}"
    THEN IF s.brace_depth - 1 = 0
         THEN [s EXCEPT !.brace_depth = 0, !.closed = TRUE]
         ELSE [s EXCEPT !.brace_depth = @ - 1, !.i = @ + 1]
    ELSE [s EXCEPT !.i = @ + 1]

RECURSIVE ExtractRun(_, _, _)
ExtractRun(content, s, k) ==
    IF ExtractDone(content, s) THEN s
    ELSE IF k = 0 THEN ExtractStep(content, s)
    ELSE ExtractRun(content, ExtractRun(content, s, k - 1), k - 1)

\* the text between start_pos and the matching closing brace; the empty text if none matches
_extract_braced_block(content, start_pos) ==
    LET s == ExtractRun(content, [i |-> start_pos, brace_depth |-> 1, closed |-> FALSE],
                        LoopDepth)
    IN  IF s.closed THEN SubSeq(content, start_pos, s.i - 1) ELSE <<>>

(***************************************************************************)
(* _parse_tech_block_content.  The result is the entity as the call leaves *)
(* it and whether the call raised.  The keys set behind the prerequisites  *)
(* (cost, category, potential, the two flags) cannot raise and are left    *)
(* out; words between double quotes are not modelled.                      *)
(***************************************************************************)
\* lines 268-269
ParseArea(tech, content) ==
    LET p == SearchKey(content, "area", "word")
    IN  IF p # 0 THEN [tech EXCEPT !.research_area = content[AssignValuePos(content, p)]]
        ELSE tech

\* lines 271-272: the digits found, "" if the key is absent
TierDigits(content) ==
    LET p == SearchKey(content, "tier", "digits")
    IN  IF p # 0 THEN content[AssignValuePos(content, p)] ELSE ""

\* TECH_ID_REGEX.findall(block): the words of the block
FindTechIds(block) == SelectSeq(block, IsWord)

\* lines 274-277
ParsePrerequisites(tech, content) ==
    LET p == SearchKey(content, "prerequisites", "brace")
    IN  IF p # 0
        THEN [tech EXCEPT !.prerequisite_tech_ids =
                 FindTechIds(_extract_braced_block(content, AssignValuePos(content, p) + 1))]
        ELSE tech

\* line 279: STARTING_TECH_REGEX.search(content)
HasStartMarker(content) == SearchKey(content, "start_tech", "yes") # 0

\* a parser that leaves the prerequisites of a starting technology as they were read
ApplyStartTech_Forgotten(tech, content) == tech

\* lines 279-281
ApplyStartTech(tech, content) ==
    IF HasStartMarker(content) THEN [tech EXCEPT !.prerequisite_tech_ids = <<>>] ELSE tech

_parse_tech_block_content(tech, content) ==
    LET t1     == ParseArea(tech, content)
        digits == TierDigits(content)
    IN  IF digits = OverlongDigits
        THEN [tech |-> t1, raised |-> TRUE]
        ELSE LET t2 == IF digits # "" THEN [t1 EXCEPT !.tier_level = IntOf[digits]] ELSE t1
             IN  [tech |-> ApplyStartTech(ParsePrerequisites(t2, content), content),
                  raised |-> FALSE]

(***************************************************************************)
(* _parse_single_tech_file: the result is the store as the call leaves it, *)
(* whether the call raised, and as history the identifiers created from a  *)
(* body that carries the start marker.                                     *)
(***************************************************************************)
\* TECH_DEFINITION_REGEX.finditer(content): the positions of the matches, ascending
TechDefinitionMatches(content) ==
    SortedSeq({p \in DOMAIN content :
                  /\ p = 1 \/ content[p - 1] = NL
                  /\ IsWord(content[p])
                  /\ AssignValuePos(content, p) # 0
                  /\ At(content, AssignValuePos(content, p)) = "{"})

\* line 227: the record is taken
AcceptsRecord(store, tech_id, tech_block) == tech_block # <<>> /\ ~Has(store, tech_id)

\* lines 224-229: one iteration of the for loop, for the match at position p
ParseMatch(content, s, p) ==
    LET tech_id    == content[p]
        tech_block == _extract_braced_block(content, AssignValuePos(content, p) + 1)
    IN  IF AcceptsRecord(s.store, tech_id, tech_block)
        THEN LET res == _parse_tech_block_content(Technology(tech_id), tech_block)
             IN  [store  |-> Append(s.store, res.tech),
                  raised |-> res.raised,
                  marked |-> IF HasStartMarker(tech_block)
                             THEN s.marked \cup {tech_id} ELSE s.marked]
        ELSE s

\* the for loop: it ends with the matches, or with the exception
RECURSIVE ParseMatches(_, _, _, _)
ParseMatches(content, s, ms, k) ==
    IF k > Len(ms) \/ s.raised THEN s
    ELSE ParseMatches(content, ParseMatch(content, s, ms[k]), ms, k + 1)

_parse_single_tech_file(store, text) ==
    LET s0 == [store |-> store, raised |-> FALSE, marked |-> {}]
    IN  IF text = <<>> THEN s0
        ELSE LET content == _remove_comments_from_content(text)
             IN  ParseMatches(content, s0, TechDefinitionMatches(content), 1)

(***************************************************************************)
(* The source files ParseSpec scans.                                       *)
(***************************************************************************)
\* an indented line: key = value
KV(key, value) == <<SP, key, SP, "=", SP, value, NL>>

RECURSIVE Spaced(_, _)
Spaced(words, k) ==
    IF k > Len(words) THEN <<>> ELSE <<words[k], SP>> \o Spaced(words, k + 1)

\* an indented line: key = { words }
Block(key, words) == <<SP, key, SP, "=", SP, "{", SP>> \o Spaced(words, 1) \o <<"}", NL>>

\* a record whose identifier stands at the start of its line
Record(tech_id, body) == <<tech_id, SP, "=", SP, "{", NL>> \o body \o <<"}", NL>>

Files ==
    [base |->
        Record("t1", KV("area", "physics") \o KV("tier", "1"))
        \o Record("t2", KV("tier", "2") \o Block("prerequisites", <<"t1">>)),
     mod |->
        Record("t2", KV("tier", "1") \o Block("prerequisites", <<"t3">>))
        \o Record("t3", KV("area", "society") \o Block("prerequisites", <<"t1", "t2">>)),
     start_before |->
        Record("t3", KV("start_tech", "yes") \o Block("prerequisites", <<"t1">>)),
     start_after |->
        Record("t4", Block("prerequisites", <<"t1", "t2">>) \o KV("start_tech", "yes")),
     start_inside |->
        Record("t5", Block("prerequisites", <<"t2", "start_tech", "=", "yes">>)),
     overlong |->
        Record("t6", KV("tier", "1"))
        \o Record("t7", KV("area", "physics") \o KV("tier", OverlongDigits)
                        \o Block("prerequisites", <<"t6">>) \o KV("start_tech", "yes"))
        \o Record("t8", KV("tier", "2") \o Block("prerequisites", <<"t6", "t1">>)),
     malformed |->
        <<"t9", SP, "=", SP, "{", NL, SP, "tier", SP, "=", SP, "1", NL>>
        \o <<"t10", SP, "=", SP, "{", "}", NL>>
        \o <<"t11", "=", "{", SP, "}", NL>>,
     column0 |->
        <<"t2", SP, "=", SP, "{", NL,
          "prerequisites", SP, "=", SP, "{", SP, "t1", SP, "}", NL,
          SP, "tier", SP, "=", SP, "2", NL, "}", NL>>,
     comments |->
        <<SP, "#", SP, "t12", SP, "=", SP, "{", SP, "}", NL>>
        \o <<"t13", SP, "=", SP, "{", SP, "#", SP, "start_tech", SP, "=", SP, "yes", NL>>
        \o Block("prerequisites", <<"t1">>) \o <<"}", NL>>,
     unreadable |-> <<>>]

FileNames == DOMAIN Files

(***************************************************************************)
(* build_technology_tree_relationships                                     *)
(***************************************************************************)
\* a builder that appends the prerequisite to the dependent's list: the edge reversed
LinkPrerequisite_Reversed(store, i, prereq_id) ==
    IF Has(store, prereq_id)
    THEN IF ~InSeq(prereq_id, store[i].unlocked_tech_ids)
         THEN [store EXCEPT ![i].unlocked_tech_ids = Append(@, prereq_id)]
         ELSE store
    ELSE store

\* a builder that appends without looking for the identifier in the list
LinkPrerequisite_Unchecked(store, i, prereq_id) ==
    IF Has(store, prereq_id)
    THEN [store EXCEPT ![IndexOf(store, prereq_id)].unlocked_tech_ids = Append(@, store[i].tech_id)]
    ELSE store

\* a builder that links an entity only to prerequisites stored before it
LinkPrerequisite_EarlierOnly(store, i, prereq_id) ==
    IF Has(store, prereq_id) /\ IndexOf(store, prereq_id) < i
    THEN LET k == IndexOf(store, prereq_id) IN
         IF ~InSeq(store[i].tech_id, store[k].unlocked_tech_ids)
         THEN [store EXCEPT ![k].unlocked_tech_ids = Append(@, store[i].tech_id)]
         ELSE store
    ELSE store

\* lines 449-452: one prerequisite reference of the entity at position i
LinkPrerequisite(store, i, prereq_id) ==
    IF Has(store, prereq_id)
    THEN LET k == IndexOf(store, prereq_id) IN
         IF ~InSeq(store[i].tech_id, store[k].unlocked_tech_ids)
         THEN [store EXCEPT ![k].unlocked_tech_ids = Append(@, store[i].tech_id)]
         ELSE store
    ELSE store

\* the two nested for loops, as the state of their iteration: the store, the position i of
\* the entity in the store and the position j in its prerequisite list
BuildDone(s) == s.i > Len(s.store)

BuildStep(s) ==
    IF s.j > Len(s.store[s.i].prerequisite_tech_ids)
    THEN [s EXCEPT !.i = @ + 1, !.j = 1]
    ELSE [s EXCEPT !.store = LinkPrerequisite(@, s.i, s.store[s.i].prerequisite_tech_ids[s.j]),
                   !.j = @ + 1]

\* up to 2^k iterations of the loop, stopping when it ends
RECURSIVE BuildRun(_, _)
BuildRun(s, k) ==
    IF BuildDone(s) THEN s
    ELSE IF k = 0 THEN BuildStep(s)
    ELSE BuildRun(BuildRun(s, k - 1), k - 1)

build_technology_tree_relationships(store) ==
    BuildRun([store |-> store, i |-> 1, j |-> 1], LoopDepth).store

(***************************************************************************)
(* _count_unique_successors and _precompute_overlong_trees                 *)
(***************************************************************************)
\* the while loop over the explicit stack, as the state of its iteration
CountDone(s) == s.stack = <<>>

CountStep(store, s) ==
    LET tid  == s.stack[Len(s.stack)]
        rest == SubSeq(s.stack, 1, Len(s.stack) - 1)
    IN  IF tid \in s.visited \/ ~Has(store, tid)
        THEN [s EXCEPT !.stack = rest]
        ELSE [stack |-> rest \o Get(store, tid).unlocked_tech_ids,
              visited |-> s.visited \cup {tid}]

RECURSIVE CountRun(_, _, _)
CountRun(store, s, k) ==
    IF CountDone(s) THEN s
    ELSE IF k = 0 THEN CountStep(store, s)
    ELSE CountRun(store, CountRun(store, s, k - 1), k - 1)

_count_unique_successors(store, tech_id) ==
    IF ~Has(store, tech_id) THEN 0
    ELSE Cardinality(CountRun(store, [stack |-> Get(store, tech_id).unlocked_tech_ids,
                                      visited |-> {}], LoopDepth).visited)

\* a comparison that also flags a count equal to the threshold
IsOverlong_AtLeast(cnt) == cnt >= LONG_TREE_THRESHOLD

\* line 475: the comparison with the threshold
IsOverlong(cnt) == cnt > LONG_TREE_THRESHOLD

\* line 474: cnt, for every key of the store
PrecomputeCounts(store) ==
    [tid \in Keys(store) |-> _count_unique_successors(store, tid)]

(***************************************************************************)
(* detect_circular_dependencies.  The state of the search is the record    *)
(* d = [cycles, visited, rec_stack, stack, log]; a frame of the stack is   *)
(* one active call of dfs_detect_cycle: its tech_id, its own path list and *)
(* the position idx of its for loop.                                       *)
(***************************************************************************)
\* path.index(tech_id): the first position holding tech_id
PathIndex(path, tech_id) ==
    CHOOSE i \in DOMAIN path :
        path[i] = tech_id /\ \A j \in 1..(i - 1) : path[j] # tech_id

\* a slice that is not closed by the re-entered node
CycleSlice_Open(path, tech_id) ==
    SubSeq(path, PathIndex(path, tech_id), Len(path))

\* lines 671-672: the slice from the first occurrence to the end, then tech_id again
CycleSlice(path, tech_id) ==
    SubSeq(path, PathIndex(path, tech_id), Len(path)) \o <<tech_id>>

\* a call that looks at visited before it looks at rec_stack
DfsCall_VisitedFirst(store, d, tech_id, path) ==
    IF tech_id \in d.visited \/ ~Has(store, tech_id)
    THEN d
    ELSE IF tech_id \in d.rec_stack
    THEN [d EXCEPT !.cycles = Append(@, CycleSlice(path, tech_id))]
    ELSE [d EXCEPT !.visited = @ \cup {tech_id},
                   !.rec_stack = @ \cup {tech_id},
                   !.stack = Append(@, [tech_id |-> tech_id,
                                        path |-> Append(path, tech_id), idx |-> 1]),
                   !.log = Append(@, tech_id)]

\* lines 670-681: a call dfs_detect_cycle(tech_id, path), up to its for loop
DfsCall(store, d, tech_id, path) ==
    IF tech_id \in d.rec_stack
    THEN [d EXCEPT !.cycles = Append(@, CycleSlice(path, tech_id))]
    ELSE IF tech_id \in d.visited \/ ~Has(store, tech_id)
    THEN d
    ELSE [d EXCEPT !.visited = @ \cup {tech_id},
                   !.rec_stack = @ \cup {tech_id},
                   !.stack = Append(@, [tech_id |-> tech_id,
                                        path |-> Append(path, tech_id), idx |-> 1]),
                   !.log = Append(@, tech_id)]

\* lines 683-688: one iteration of the for loop of the innermost call, or its return
DfsStep(store, d) ==
    LET top      == Len(d.stack)
        f        == d.stack[top]
        unlocked == Get(store, f.tech_id).unlocked_tech_ids
    IN  IF f.idx <= Len(unlocked)
        THEN DfsCall(store, [d EXCEPT !.stack[top].idx = @ + 1], unlocked[f.idx], f.path)
        ELSE [d EXCEPT !.rec_stack = @ \ {f.tech_id},
                       !.stack = SubSeq(@, 1, top - 1)]

DetectState ==
    [cycles |-> cycles, visited |-> visited, rec_stack |-> rec_stack,
     stack |-> dfs_stack, log |-> dfs_log]

(***************************************************************************)
(* _format_tech_tree_entry, _build_tech_subtree, generate_tech_tree_content *)
(***************************************************************************)
NoEntry == [empty |-> TRUE]

\* lines 495-509: the other stored prerequisites of the entity
AdditionalPrereqs(store, tech, current_prereq) ==
    IF Len(tech.prerequisite_tech_ids) > 1
    THEN LET Other(prereq_id) == prereq_id # current_prereq /\ Has(store, prereq_id)
         IN  SelectSeq(tech.prerequisite_tech_ids, Other)
    ELSE <<>>

\* a line of the tree: the fields the text of lines 484-515 is made of, and as history
\* the node under which it stands (the current_prereq of the call)
_format_tech_tree_entry(store, tech_id, indent_level, current_prereq) ==
    IF ~Has(store, tech_id) THEN NoEntry
    ELSE LET tech == Get(store, tech_id)
         IN  [empty |-> FALSE, tech_id |-> tech_id, indent_level |-> indent_level,
              tier_level |-> tech.tier_level,
              additional_prereqs |-> AdditionalPrereqs(store, tech, current_prereq),
              already_shown |-> FALSE, under |-> current_prereq]

\* line 541: the tier of the sort key, 0 for an identifier the store does not hold
KeyTier(store, tid) == IF Has(store, tid) THEN Get(store, tid).tier_level ELSE 0

\* lines 540-542: the sort key (tier, tid), compared as a tuple
KeyLess(store, a, b) ==
    \/ KeyTier(store, a) < KeyTier(store, b)
    \/ KeyTier(store, a) = KeyTier(store, b) /\ a < b

\* sorted(): a stable sort, by insertion of each element behind the elements not greater
RECURSIVE InsertByKey(_, _, _)
InsertByKey(store, sortedSoFar, x) ==
    IF sortedSoFar = <<>> THEN <<x>>
    ELSE LET last == sortedSoFar[Len(sortedSoFar)]
         IN  IF KeyLess(store, x, last)
             THEN Append(InsertByKey(store, SubSeq(sortedSoFar, 1, Len(sortedSoFar) - 1), x), last)
             ELSE Append(sortedSoFar, x)

RECURSIVE SortFrom(_, _, _, _)
SortFrom(store, ids, i, acc) ==
    IF i > Len(ids) THEN acc
    ELSE SortFrom(store, ids, i + 1, InsertByKey(store, acc, ids[i]))

\* a walk that takes the successors in the order of the list
SortedUnlocked_AsInserted(store, ids) == ids

SortedUnlocked(store, ids) == SortFrom(store, ids, 1, <<>>)

\* The state of a rendering is the record r = [stack, path_set, expanded_set, lines, log];
\* a frame of the stack is one active call of _build_tech_subtree: its tech_id, its
\* current_depth, the sorted list unlocked_techs and the position idx of its for loop.

\* lines 528-542: a call _build_tech_subtree(tech_id, current_depth, ...), up to its for loop
SubtreeCall(store, r, tech_id, current_depth) ==
    IF ~Has(store, tech_id) THEN r
    ELSE IF tech_id \in r.path_set THEN r
    ELSE [r EXCEPT !.path_set = @ \cup {tech_id},
                   !.stack = Append(@, [tech_id |-> tech_id, current_depth |-> current_depth,
                                        unlocked_techs |->
                                            SortedUnlocked(store, Get(store, tech_id).unlocked_tech_ids),
                                        idx |-> 1]),
                   !.log = Append(@, tech_id)]

\* a check that looks at the current path only
AlreadyShown_PathOnly(r, unlock_id) == unlock_id \in r.path_set

\* a check that looks at the expanded set only, so that the root is taken for a new node
AlreadyShown_ExpandedOnly(r, unlock_id) == unlock_id \in r.expanded_set

\* line 551: the successor is not expanded again
AlreadyShown(r, unlock_id) == unlock_id \in r.expanded_set \/ unlock_id \in r.path_set

\* a walk that descends into every successor, with neither check
SubtreeStep_Unguarded(store, r) ==
    LET top == Len(r.stack)
        f   == r.stack[top]
    IN  IF f.idx <= Len(f.unlocked_techs)
        THEN LET unlock_id == f.unlocked_techs[f.idx]
                 base_line == _format_tech_tree_entry(store, unlock_id, f.current_depth + 1, f.tech_id)
                 r1        == [r EXCEPT !.stack[top].idx = @ + 1]
             IN  IF base_line.empty THEN r1
                 ELSE [r1 EXCEPT !.lines = Append(@, base_line),
                                 !.expanded_set = @ \cup {unlock_id},
                                 !.path_set = @ \cup {unlock_id},
                                 !.stack = Append(@, [tech_id |-> unlock_id,
                                                      current_depth |-> f.current_depth + 1,
                                                      unlocked_techs |->
                                                          SortedUnlocked(store, Get(store, unlock_id).unlocked_tech_ids),
                                                      idx |-> 1]),
                                 !.log = Append(@, unlock_id)]
        ELSE [r EXCEPT !.path_set = @ \ {f.tech_id},
                       !.stack = SubSeq(@, 1, top - 1)]

\* lines 546-561: one iteration of the for loop of the innermost call, or its return
SubtreeStep(store, r) ==
    LET top == Len(r.stack)
        f   == r.stack[top]
    IN  IF f.idx <= Len(f.unlocked_techs)
        THEN LET unlock_id == f.unlocked_techs[f.idx]
                 base_line == _format_tech_tree_entry(store, unlock_id, f.current_depth + 1, f.tech_id)
                 r1        == [r EXCEPT !.stack[top].idx = @ + 1]
             IN  IF base_line.empty THEN r1
                 ELSE IF AlreadyShown(r, unlock_id)
                 THEN [r1 EXCEPT !.lines = Append(@, [base_line EXCEPT !.already_shown = TRUE])]
                 ELSE SubtreeCall(store,
                                  [r1 EXCEPT !.lines = Append(@, base_line),
                                             !.expanded_set = @ \cup {unlock_id}],
                                  unlock_id, f.current_depth + 1)
        ELSE [r EXCEPT !.path_set = @ \ {f.tech_id},
                       !.stack = SubSeq(@, 1, top - 1)]

RenderState ==
    [stack |-> render_stack, path_set |-> path_set, expanded_set |-> expanded_set,
     lines |-> lines, log |-> subtree_log]

\* a call that goes on with the sets the call before it has left
FreshRender_Shared ==
    [stack |-> <<>>, path_set |-> path_set, expanded_set |-> expanded_set,
     lines |-> <<>>, log |-> <<>>]

\* line 572: path_set=set(), expanded_set=set()
FreshRender ==
    [stack |-> <<>>, path_set |-> {}, expanded_set |-> {}, lines |-> <<>>, log |-> <<>>]

(***************************************************************************)
(* The stores Spec starts from: what scanning can leave behind.  Entities  *)
(* are stored in ascending identifier order (any other order is a renaming *)
(* of one of these for the builder, the sizer and the detector).  In the   *)
(* small stores the prerequisite lists are free, a prerequisite may name   *)
(* an identifier that is not stored, and no record carries a tier key; the *)
(* diamond stores carry tiers, in both orders for the two siblings.        *)
(***************************************************************************)
RefIds == {1, 2, 3}
StoreSizes == {2, 3}
SiblingTiers == {1, 2}

RefLists(n) ==
    {r \in SeqsUpTo((1..n) \X RefIds, MaxRefs) :
        \A i \in 1..(Len(r) - 1) : r[i][1] <= r[i + 1][1]}

PrereqsOf(r, e) ==
    LET Mine(x) == x[1] = e
        s == SelectSeq(r, Mine)
    IN  [i \in 1..Len(s) |-> s[i][2]]

Parsed(tech_id, tier, prereqs) ==
    [Technology(tech_id) EXCEPT !.tier_level = tier, !.prerequisite_tech_ids = prereqs]

SmallStore(n, r) == [e \in 1..n |-> Parsed(e, 0, PrereqsOf(r, e))]

\* the scenario of four entities: A, then B and C requiring A, then D requiring B and C
DiamondStore(tb, tc) ==
    <<Parsed(1, 0, <<>>), Parsed(2, tb, <<1>>), Parsed(3, tc, <<1>>), Parsed(4, 2, <<2, 3>>)>>

\* a pure chain 1 -> 2 -> ... -> n
ChainStore(n) == [e \in 1..n |-> Parsed(e, 0, IF e = 1 THEN <<>> ELSE <<e - 1>>)]

ChainSizes == {4, LargeChain}

NoCall == [op |-> "none"]

Init ==
    /\ \/ \E n \in StoreSizes : \E r \in RefLists(n) :
              all_technologies = SmallStore(n, r)
       \/ \E tb, tc \in SiblingTiers : all_technologies = DiamondStore(tb, tc)
       \/ \E n \in ChainSizes : all_technologies = ChainStore(n)
    /\ overlong_tech_ids = {} /\ successor_counts = <<>>
    /\ phase = "scan"
    /\ ret = NoCall
    /\ render_stack = <<>> /\ path_set = {} /\ expanded_set = {} /\ lines = <<>>
    /\ subtree_log = <<>> /\ render_steps = 0
    /\ dfs_stack = <<>> /\ visited = {} /\ rec_stack = {} /\ cycles = <<>>
    /\ dfs_next = 1 /\ dfs_log = <<>> /\ dfs_steps = 0
    /\ scanned = <<>> /\ raised = {} /\ start_marked = {}

(***************************************************************************)
(* run_generation_process, the graph engine part.                          *)
(***************************************************************************)
Build ==
    /\ phase = "scan"
    /\ all_technologies' = build_technology_tree_relationships(all_technologies)
    /\ phase' = "built"
    /\ UNCHANGED <<sizeVars, renderVars, detectVars, parseVars>>

\* build_technology_tree_relationships called once more, on the store it has built
Rebuild ==
    /\ phase = "built"
    /\ all_technologies' = build_technology_tree_relationships(all_technologies)
    /\ phase' = "rebuilt"
    /\ UNCHANGED <<sizeVars, renderVars, detectVars, parseVars>>

\* _precompute_overlong_trees: clear, then add every key whose count is over the threshold
Precompute ==
    /\ phase \in {"built", "rebuilt"}
    /\ successor_counts' = PrecomputeCounts(all_technologies)
    /\ overlong_tech_ids' = {tid \in Keys(all_technologies) : IsOverlong(successor_counts'[tid])}
    /\ phase' = "sized"
    /\ UNCHANGED <<all_technologies, renderVars, detectVars, parseVars>>

\* report_circular_dependencies calls detect_circular_dependencies: lines 665-667
DetectStart ==
    /\ phase = "sized"
    /\ cycles' = <<>> /\ visited' = {} /\ rec_stack' = {}
    /\ dfs_stack' = <<>> /\ dfs_next' = 1 /\ dfs_log' = <<>> /\ dfs_steps' = 0
    /\ phase' = "detect"
    /\ UNCHANGED <<all_technologies, sizeVars, renderVars, parseVars>>

SetDetectState(d) ==
    /\ cycles' = d.cycles /\ visited' = d.visited /\ rec_stack' = d.rec_stack
    /\ dfs_stack' = d.stack /\ dfs_log' = d.log

\* lines 690-692: the next key of the store, searched from unless already visited
DetectRoot ==
    /\ phase = "detect" /\ dfs_stack = <<>> /\ dfs_next <= Len(all_technologies)
    /\ LET tech_id == all_technologies[dfs_next].tech_id
       IN  SetDetectState(IF tech_id \notin visited
                          THEN DfsCall(all_technologies, DetectState, tech_id, <<>>)
                          ELSE DetectState)
    /\ dfs_next' = dfs_next + 1
    /\ dfs_steps' = dfs_steps + 1
    /\ UNCHANGED <<all_technologies, sizeVars, phase, renderVars, parseVars>>

DetectStep ==
    /\ phase = "detect" /\ dfs_stack # <<>>
    /\ SetDetectState(DfsStep(all_technologies, DetectState))
    /\ dfs_steps' = dfs_steps + 1
    /\ UNCHANGED <<all_technologies, sizeVars, phase, dfs_next, renderVars, parseVars>>

\* line 694: return cycles
DetectReturn ==
    /\ phase = "detect" /\ dfs_stack = <<>> /\ dfs_next > Len(all_technologies)
    /\ phase' = "reported"
    /\ UNCHANGED <<all_technologies, sizeVars, renderVars, detectVars, parseVars>>

SetRenderState(r) ==
    /\ render_stack' = r.stack /\ path_set' = r.path_set /\ expanded_set' = r.expanded_set
    /\ lines' = r.lines /\ subtree_log' = r.log

\* lines 574-579: what generate_tech_tree_content returns once the walk is over
TreeContent(tree_lines) == IF tree_lines = <<>> THEN "max_level" ELSE "tree"

\* the result of a rendering state: the walk continues, or the content is returned
ContinueRender(tech_id, r) ==
    /\ SetRenderState(r)
    /\ IF r.stack = <<>>
       THEN /\ ret' = [op |-> "render", root |-> tech_id, content |-> TreeContent(r.lines)]
            /\ phase' = "reported"
       ELSE /\ ret' = [op |-> "render", root |-> tech_id, content |-> "pending"]
            /\ phase' = "render"

\* generate_tech_tree_content(tech_id): lines 564-573
StartRender ==
    /\ phase = "reported"
    /\ \E tech_id \in Keys(all_technologies) \cup RefIds :
          IF ~Has(all_technologies, tech_id)
          THEN /\ ret' = [op |-> "render", root |-> tech_id, content |-> "empty"]
               /\ SetRenderState(FreshRender) /\ phase' = phase
          ELSE IF tech_id \in overlong_tech_ids
          THEN /\ ret' = [op |-> "render", root |-> tech_id, content |-> "skip_long_tree"]
               /\ SetRenderState(FreshRender) /\ phase' = phase
          ELSE ContinueRender(tech_id, SubtreeCall(all_technologies, FreshRender, tech_id, 0))
    /\ render_steps' = 0
    /\ UNCHANGED <<all_technologies, sizeVars, detectVars, parseVars>>

RenderStep ==
    /\ phase = "render"
    /\ Len(lines) < MaxLines
    /\ ContinueRender(ret.root, SubtreeStep(all_technologies, RenderState))
    /\ render_steps' = render_steps + 1
    /\ UNCHANGED <<all_technologies, sizeVars, detectVars, parseVars>>

\* _scan_technology_path: one file of the glob, with the try/except around its parse
ScanFile ==
    /\ phase = "scan" /\ Len(scanned) < MaxFiles
    /\ \E f \in FileNames :
          LET res == _parse_single_tech_file(all_technologies, Files[f])
          IN  /\ all_technologies' = res.store
              /\ start_marked' = start_marked \cup res.marked
              /\ scanned' = Append(scanned, f)
              /\ raised' = IF res.raised THEN raised \cup {Len(scanned) + 1} ELSE raised
    /\ UNCHANGED <<phase, sizeVars, renderVars, detectVars>>

ParseInit ==
    /\ all_technologies = <<>>
    /\ overlong_tech_ids = {} /\ successor_counts = <<>>
    /\ phase = "scan"
    /\ ret = NoCall
    /\ render_stack = <<>> /\ path_set = {} /\ expanded_set = {} /\ lines = <<>>
    /\ subtree_log = <<>> /\ render_steps = 0
    /\ dfs_stack = <<>> /\ visited = {} /\ rec_stack = {} /\ cycles = <<>>
    /\ dfs_next = 1 /\ dfs_log = <<>> /\ dfs_steps = 0
    /\ scanned = <<>> /\ raised = {} /\ start_marked = {}

ParseNext == ScanFile \/ Build

ParseSpec == ParseInit /\ [][ParseNext]_vars

Next ==
    \/ Build \/ Rebuild \/ Precompute
    \/ DetectStart \/ DetectRoot \/ DetectStep \/ DetectReturn
    \/ StartRender \/ RenderStep

Spec == Init /\ [][Next]_vars

(***************************************************************************)
(* The graph the claims speak of.                                          *)
(***************************************************************************)
\* a successor edge a -> b of the store
Edge(store, a, b) == Has(store, a) /\ InSeq(b, Get(store, a).unlocked_tech_ids)

SuccessorsOf(store, S) ==
    UNION {Elems(Get(store, x).unlocked_tech_ids) : x \in S} \cap Keys(store)

RECURSIVE ReachRun(_, _, _)
ReachRun(store, R, k) ==
    IF SuccessorsOf(store, R) \subseteq R THEN R
    ELSE IF k = 0 THEN R \cup SuccessorsOf(store, R)
    ELSE ReachRun(store, ReachRun(store, R, k - 1), k - 1)

\* the identifiers reachable from root by one or more successor edges
ReachableFrom(store, root) == ReachRun(store, SuccessorsOf(store, {root}), LoopDepth)

RenderOver ==
    ret.op = "render" /\ ret.content \in {"tree", "max_level"}

UnmarkedIds(ls) ==
    LET Plain(l) == ~l.already_shown
        u == SelectSeq(ls, Plain)
    IN  [i \in 1..Len(u) |-> u[i].tech_id]

LinesUnder(ls, x) ==
    LET Mine(l) == l.under = x
        u == SelectSeq(ls, Mine)
    IN  [i \in 1..Len(u) |-> u[i].tech_id]

(***************************************************************************)
(* C1: after build_technology_tree_relationships has run over a parsed     *)
(* store, B is in A's successor list iff A's identifier is in B's          *)
(* prerequisite list, for all stored A and B; a prerequisite that names no *)
(* stored entity gives no successor edge (every successor is stored) and   *)
(* every prerequisite list is what it was before the build.                *)
(***************************************************************************)
C1_BuildSymmetry ==
    [][(phase = "scan" /\ phase' = "built") =>
          /\ Len(all_technologies') = Len(all_technologies)
          /\ \A i \in DOMAIN all_technologies :
                /\ all_technologies'[i].tech_id = all_technologies[i].tech_id
                /\ all_technologies'[i].prerequisite_tech_ids =
                       all_technologies[i].prerequisite_tech_ids
                /\ Elems(all_technologies'[i].unlocked_tech_ids) \subseteq Keys(all_technologies)
          /\ \A i, j \in DOMAIN all_technologies :
                InSeq(all_technologies'[j].tech_id, all_technologies'[i].unlocked_tech_ids)
                    <=> InSeq(all_technologies'[i].tech_id,
                              all_technologies'[j].prerequisite_tech_ids)]_vars

\* a built store with a successor edge and with a prerequisite that names no stored entity
C1_Witness ==
    /\ phase = "built"
    /\ \E i \in DOMAIN all_technologies : all_technologies[i].unlocked_tech_ids # <<>>
    /\ \E i \in DOMAIN all_technologies :
          \E p \in Elems(all_technologies[i].prerequisite_tech_ids) :
              ~Has(all_technologies, p)

(***************************************************************************)
(* C2: for every stored root, the count _count_unique_successors returns   *)
(* is the number of identifiers other than the root that are reachable     *)
(* from the root by one or more successor edges (the root is not counted). *)
(***************************************************************************)
C2_CountExcludesRoot ==
    phase = "sized" =>
        \A tid \in Keys(all_technologies) :
            successor_counts[tid] =
                Cardinality(ReachableFrom(all_technologies, tid) \ {tid})

(***************************************************************************)
(* C3: in the lines of one finished rendering, a line carries the 'already *)
(* shown' marker iff its node is the root or has an earlier line without   *)
(* the marker (so no node is expanded twice and the root never is); the    *)
(* walk descended into exactly the nodes of the unmarked lines, in that    *)
(* order, once each; and under every node descended into stands exactly    *)
(* one line per direct successor.                                          *)
(***************************************************************************)
C3_ExpandedOnce ==
    RenderOver =>
        /\ \A k \in DOMAIN lines :
              lines[k].already_shown <=>
                  \/ lines[k].tech_id = ret.root
                  \/ \E j \in 1..(k - 1) :
                         lines[j].tech_id = lines[k].tech_id /\ ~lines[j].already_shown
        /\ subtree_log = <<ret.root>> \o UnmarkedIds(lines)
        /\ NoDuplicates(subtree_log)
        /\ \A k \in DOMAIN lines : InSeq(lines[k].under, subtree_log)
        /\ \A i \in DOMAIN subtree_log :
              LET succs == Get(all_technologies, subtree_log[i]).unlocked_tech_ids
                  under == LinesUnder(lines, subtree_log[i])
              IN  Len(under) = Len(succs) /\ Elems(under) = Elems(succs)

\* a finished rendering that met an expanded node again and came back to its root
C3_Witness ==
    /\ RenderOver
    /\ \E k \in DOMAIN lines : lines[k].already_shown /\ lines[k].tech_id = ret.root
    /\ \E k \in DOMAIN lines : lines[k].already_shown /\ lines[k].tech_id # ret.root

(***************************************************************************)
(* C4: a rendering comes to its end, whatever the graph: while it runs it  *)
(* can take its next step (it is neither stuck nor cut off), and it takes  *)
(* at most one step per successor edge and one per entity of the store, so *)
(* generate_tech_tree_content returns, with a list of at most as many      *)
(* lines as the store has successor edges.                                 *)
(***************************************************************************)
NumEdges(store) ==
    Cardinality(UNION {{i} \X DOMAIN store[i].unlocked_tech_ids : i \in DOMAIN store})

C4_RenderTerminates ==
    ret.op = "render" =>
        /\ render_steps <= NumEdges(all_technologies) + Len(all_technologies)
        /\ Len(lines) <= NumEdges(all_technologies)
        /\ phase = "render" => (render_stack # <<>> /\ Len(lines) < MaxLines)
        /\ phase # "render" => (render_stack = <<>> /\ ret.content # "pending")

\* a finished rendering of a root that lies on a cycle, and of a node with a self-loop
C4_Witness ==
    /\ RenderOver /\ phase = "reported"
    /\ Edge(all_technologies, ret.root, ret.root)
    /\ \E x \in Keys(all_technologies) \ {ret.root} :
          /\ ret.root \in ReachableFrom(all_technologies, x)
          /\ x \in ReachableFrom(all_technologies, ret.root)

(***************************************************************************)
(* C5: after the counts have been precomputed, generate_tech_tree_content  *)
(* for a root whose count is over 100 returns the oversized-tree warning   *)
(* and walks nothing (no line, no descent); a root whose count is at most  *)
(* 100 never gets the warning.                                             *)
(***************************************************************************)
C5_OverlongOnlyWarning ==
    (ret.op = "render" /\ Has(all_technologies, ret.root)) =>
        IF successor_counts[ret.root] > LONG_TREE_THRESHOLD
        THEN ret.content = "skip_long_tree" /\ lines = <<>> /\ subtree_log = <<>>
                /\ render_stack = <<>>
        ELSE ret.content # "skip_long_tree"

\* the warning returned for a root over the threshold
C5_Witness ==
    /\ ret.op = "render" /\ ret.content = "skip_long_tree"
    /\ successor_counts[ret.root] > LONG_TREE_THRESHOLD

\* a tree rendered for a root whose count is exactly the threshold
C5_AtThreshold ==
    /\ RenderOver /\ successor_counts[ret.root] = LONG_TREE_THRESHOLD

(***************************************************************************)
(* C6: detect_circular_dependencies returns every simple cycle of the      *)
(* successor graph, as some rotation of its node sequence (stores of up to *)
(* four entities).                                                         *)
(***************************************************************************)
SimpleCycles(store) ==
    {v \in SeqsUpTo(Keys(store), Len(store)) :
        /\ v # <<>>
        /\ NoDuplicates(v)
        /\ \A i \in DOMAIN v : Edge(store, v[i], v[(i % Len(v)) + 1])}

IsRotationOf(c, v) ==
    /\ Len(c) = Len(v) + 1
    /\ \E sh \in 0..(Len(v) - 1) :
          \A i \in DOMAIN c : c[i] = v[((i - 1 + sh) % Len(v)) + 1]

C6_AllCyclesFound ==
    (phase = "reported" /\ Len(all_technologies) <= 4) =>
        \A v \in SimpleCycles(all_technologies) :
            \E k \in DOMAIN cycles : IsRotationOf(cycles[k], v)

(***************************************************************************)
(* C7: every cycle detect_circular_dependencies returns ends where it      *)
(* began, follows successor edges and repeats no other identifier; a store *)
(* that is one cycle of three nodes yields exactly one cycle, from the     *)
(* node stored first (the root of the search) round to it again; a         *)
(* self-loop A -> A yields [A, A].                                         *)
(***************************************************************************)
IsThreeCycle(store) ==
    /\ Len(store) = 3
    /\ \A i \in DOMAIN store : Len(store[i].unlocked_tech_ids) = 1
    /\ LET nxt(x) == Get(store, x).unlocked_tech_ids[1]
       IN  \A x \in Keys(store) : nxt(x) # x /\ nxt(nxt(x)) # x /\ nxt(nxt(nxt(x))) = x

C7_CyclesWellFormed ==
    phase \in {"detect", "reported", "render"} =>
        /\ \A k \in DOMAIN cycles :
              LET c == cycles[k] IN
              /\ Len(c) >= 2
              /\ c[1] = c[Len(c)]
              /\ \A i \in 1..(Len(c) - 1) : Edge(all_technologies, c[i], c[i + 1])
              /\ NoDuplicates(SubSeq(c, 1, Len(c) - 1))
        /\ phase = "reported" =>
              /\ IsThreeCycle(all_technologies) =>
                    LET a == all_technologies[1].tech_id
                        b == Get(all_technologies, a).unlocked_tech_ids[1]
                        c == Get(all_technologies, b).unlocked_tech_ids[1]
                    IN  cycles = << <<a, b, c, a>> >>
              /\ \A a \in Keys(all_technologies) :
                    Edge(all_technologies, a, a) => InSeq(<<a, a>>, cycles)
              /\ \A a \in Keys(all_technologies) :
                    (\A i \in DOMAIN all_technologies :
                        all_technologies[i].unlocked_tech_ids =
                            IF all_technologies[i].tech_id = a THEN <<a>> ELSE <<>>)
                    => cycles = << <<a, a>> >>

\* the search is over on the store that is one cycle of three nodes
C7_Witness ==
    /\ phase = "reported"
    /\ IsThreeCycle(all_technologies)
    /\ Len(cycles) = 1 /\ Len(cycles[1]) = 4

(***************************************************************************)
(* Claims about the parser, under ParseSpec.                               *)
(***************************************************************************)
\* the step parses one more file
IsScanStep == scanned' # scanned

\* C8: the store keeps the first record of an identifier: a parse leaves every entity
\* already stored as it is, and the parse of a file that was parsed before leaves the
\* whole store as it is.
C8_FirstOccurrenceWins ==
    [][IsScanStep =>
          /\ Len(all_technologies') >= Len(all_technologies)
          /\ SubSeq(all_technologies', 1, Len(all_technologies)) = all_technologies
          /\ InSeq(scanned'[Len(scanned')], scanned) => all_technologies' = all_technologies]_vars

\* C9: a file whose parse raises contributes no record to the store, and the scan
\* goes on with the next file.
C9_FailedFileContributesNothing ==
    [][(IsScanStep /\ Len(scanned') \in raised') =>
          /\ all_technologies' = all_technologies
          /\ phase' = "scan"]_vars

\* C10: an entity created from a record that carries start_tech = yes has no
\* prerequisite, and once the successor lists are built it stands in none of them.
C10_StartTechHasNoPrerequisites ==
    \A i \in DOMAIN all_technologies :
        all_technologies[i].tech_id \in start_marked =>
            /\ all_technologies[i].prerequisite_tech_ids = <<>>
            /\ \A j \in DOMAIN all_technologies :
                  ~InSeq(all_technologies[i].tech_id, all_technologies[j].unlocked_tech_ids)

\* the starting technologies whose prerequisites block stands before, behind and
\* around the marker are stored next to the entities those blocks name, and the
\* successor lists are built
C10_Witness ==
    /\ phase = "built"
    /\ \E i, j \in DOMAIN all_technologies :
          /\ all_technologies[i].tech_id \in {"t4", "t5"}
          /\ all_technologies[i].tech_id \in start_marked
          /\ all_technologies[j].tech_id = "t2"
          /\ all_technologies[j].prerequisite_tech_ids # <<>>
    /\ \E k \in DOMAIN all_technologies : all_technologies[k].unlocked_tech_ids # <<>>

(***************************************************************************)
(* C11: in a finished rendering the lines under every node descended into  *)
(* stand in strictly ascending (tier, identifier) order, whatever the      *)
(* order of the node's successor list; rendering the root of the diamond   *)
(* A -> {B, C} -> D gives four lines: the sibling with the lesser key, D   *)
(* expanded under it, the other sibling, and D again under that one with   *)
(* the 'already shown' marker.                                             *)
(***************************************************************************)
IsDiamond(store) ==
    \E tb, tc \in SiblingTiers : store = build_technology_tree_relationships(DiamondStore(tb, tc))

C11_SuccessorsInKeyOrder ==
    RenderOver =>
        /\ \A k1, k2 \in DOMAIN lines :
              (k1 < k2 /\ lines[k1].under = lines[k2].under) =>
                  \/ lines[k1].tier_level < lines[k2].tier_level
                  \/ /\ lines[k1].tier_level = lines[k2].tier_level
                     /\ lines[k1].tech_id < lines[k2].tech_id
        /\ (IsDiamond(all_technologies) /\ ret.root = 1) =>
              LET first == IF all_technologies[3].tier_level < all_technologies[2].tier_level
                           THEN 3 ELSE 2
                  other == 5 - first
              IN  /\ [k \in DOMAIN lines |-> lines[k].tech_id] = <<first, 4, other, 4>>
                  /\ [k \in DOMAIN lines |-> lines[k].under] = <<1, first, 1, other>>
                  /\ [k \in DOMAIN lines |-> lines[k].already_shown] = <<FALSE, FALSE, FALSE, TRUE>>

\* the diamond rendered from its root, the sibling stored second emitted first
C11_Witness ==
    /\ RenderOver /\ IsDiamond(all_technologies) /\ ret.root = 1
    /\ all_technologies[1].unlocked_tech_ids = <<2, 3>>
    /\ Len(lines) = 4 /\ lines[1].tech_id = 3

(***************************************************************************)
(* C12: while files are parsed every successor list is empty; and when the *)
(* files parsed define pairwise distinct identifiers, parsing them in any  *)
(* other order and building gives the same stored identifiers and the same *)
(* set of successor edges as the store that was built.                     *)
(***************************************************************************)
\* the identifiers a file defines: those of its record heads
DefinedIds(f) ==
    LET content == _remove_comments_from_content(Files[f])
    IN  {content[TechDefinitionMatches(content)[k]] : k \in DOMAIN TechDefinitionMatches(content)}

PairwiseDistinctIds(fs) ==
    \A i, j \in DOMAIN fs : i # j => DefinedIds(fs[i]) \cap DefinedIds(fs[j]) = {}

\* the store after the files of fs have been parsed in this order, from the empty store
RECURSIVE ScanAll(_, _)
ScanAll(fs, n) ==
    IF n = 0 THEN <<>> ELSE _parse_single_tech_file(ScanAll(fs, n - 1), Files[fs[n]]).store

Reorderings(fs) ==
    {[i \in DOMAIN fs |-> fs[q[i]]] :
        q \in {q \in [DOMAIN fs -> DOMAIN fs] : \A i, j \in DOMAIN fs : q[i] = q[j] => i = j}}

EdgeSet(store) == {e \in Keys(store) \X Keys(store) : Edge(store, e[1], e[2])}

C12_SourceOrderIndependent ==
    /\ phase = "scan" =>
          \A i \in DOMAIN all_technologies : all_technologies[i].unlocked_tech_ids = <<>>
    /\ (phase = "built" /\ PairwiseDistinctIds(scanned)) =>
          \A fs \in Reorderings(scanned) :
              LET other == build_technology_tree_relationships(ScanAll(fs, Len(fs)))
              IN  /\ Keys(other) = Keys(all_technologies)
                  /\ EdgeSet(other) = EdgeSet(all_technologies)
                  /\ \A x \in Keys(other) :
                        Elems(Get(other, x).unlocked_tech_ids)
                            = Elems(Get(all_technologies, x).unlocked_tech_ids)

\* built after the file that names t1 as prerequisite was parsed before the file that defines t1
C12_Witness ==
    /\ phase = "built" /\ scanned = <<"comments", "base">>
    /\ PairwiseDistinctIds(scanned)
    /\ Edge(all_technologies, "t1", "t13")
    /\ IndexOf(all_technologies, "t13") < IndexOf(all_technologies, "t1")

(***************************************************************************)
(* C13: once built, no successor list holds an identifier twice, also when *)
(* a prerequisite list names a stored prerequisite more than once, and the *)
(* successors stand in the order in which the build met them (the order of *)
(* the store); a second run of build_technology_tree_relationships leaves  *)
(* the store, every successor list with its order included, as it was.     *)
(***************************************************************************)
SuccessorListsStable ==
    phase # "scan" =>
        \A i \in DOMAIN all_technologies :
            LET u == all_technologies[i].unlocked_tech_ids
            IN  /\ NoDuplicates(u)
                /\ \A a, b \in DOMAIN u :
                      a < b => IndexOf(all_technologies, u[a]) < IndexOf(all_technologies, u[b])

C13_SuccessorListsDeduplicated ==
    /\ []SuccessorListsStable
    /\ [][(phase = "built" /\ phase' = "rebuilt") => all_technologies' = all_technologies]_vars

\* built twice, with a prerequisite list that names one stored entity twice
C13_Witness ==
    /\ phase = "rebuilt"
    /\ \E i \in DOMAIN all_technologies :
          LET p == all_technologies[i].prerequisite_tech_ids
          IN  \E a, b \in DOMAIN p : a # b /\ p[a] = p[b] /\ Has(all_technologies, p[a])
    /\ \E i \in DOMAIN all_technologies : Len(all_technologies[i].unlocked_tech_ids) >= 2

(***************************************************************************)
(* C14: every step of the sizer, of the cycle detector and of a rendering  *)
(* leaves the store as it is (the stored identifiers and every field of    *)
(* every entity); and a call of generate_tech_tree_content starts with no  *)
(* line, an empty expanded set and a path set that holds at most its root, *)
(* whatever the call before it has left.                                   *)
(***************************************************************************)
C14_AnalysesReadOnly ==
    /\ [][phase' \in {"sized", "detect", "reported", "render"} =>
             all_technologies' = all_technologies]_vars
    /\ [][phase = "reported" =>
             /\ ret'.op = "render"
             /\ lines' = <<>> /\ expanded_set' = {} /\ path_set' \subseteq {ret'.root}
             /\ subtree_log' \in {<<>>, <<ret'.root>>}]_vars

\* sized and searched for cycles, a rendering has run to its end and left its expanded set
C14_Witness ==
    /\ phase = "reported" /\ RenderOver
    /\ expanded_set # {} /\ lines # <<>> /\ cycles # <<>>
    /\ DOMAIN successor_counts = Keys(all_technologies)
    /\ \E i \in DOMAIN all_technologies : all_technologies[i].unlocked_tech_ids # <<>>

(***************************************************************************)
(* C15: after a file has been parsed without an exception, the identifier  *)
(* of every record head of the file whose braces are balanced is stored    *)
(* (it was known before, or the record has created it), the records with   *)
(* an empty body included.                                                 *)
(***************************************************************************)
\* the brace that opens the record at position p has its closing brace
Balanced(content, p) ==
    ExtractRun(content, [i |-> AssignValuePos(content, p) + 1, brace_depth |-> 1,
                         closed |-> FALSE], LoopDepth).closed

C15_BalancedRecordsStored ==
    [][(IsScanStep /\ Len(scanned') \notin raised') =>
          LET content == _remove_comments_from_content(Files[scanned'[Len(scanned')]])
              ms      == TechDefinitionMatches(content)
          IN  \A k \in DOMAIN ms :
                  Balanced(content, ms[k]) => Has(all_technologies', content[ms[k]])]_vars

(***************************************************************************)
(* C16: when the braces of every file parsed are balanced, every stored    *)
(* identifier is the identifier of a record head that stands at brace      *)
(* depth 0 of the comment-stripped text of one of the files: a head inside *)
(* the body of another record creates no entity.                           *)
(***************************************************************************)
\* the number of braces open in front of position p
DepthAt(content, p) ==
    Cardinality({q \in 1..(p - 1) : content[q] = "{"})
        - Cardinality({q \in 1..(p - 1) : content[q] = "}"})

BalancedText(content) ==
    /\ DepthAt(content, Len(content) + 1) = 0
    /\ \A p \in DOMAIN content : DepthAt(content, p) >= 0

C16_OnlyTopLevelRecords ==
    (\A k \in DOMAIN scanned : BalancedText(_remove_comments_from_content(Files[scanned[k]]))) =>
        \A i \in DOMAIN all_technologies :
            \E k \in DOMAIN scanned :
                LET content == _remove_comments_from_content(Files[scanned[k]])
                IN  \E p \in DOMAIN content :
                        /\ content[p] = all_technologies[i].tech_id
                        /\ AssignValuePos(content, p) # 0
                        /\ At(content, AssignValuePos(content, p)) = "{"
                        /\ DepthAt(content, p) = 0

(***************************************************************************)
(* C17: when a rendering that walked (its root is stored and not flagged   *)
(* oversized) is over, the nodes of its lines without the 'already shown'  *)
(* marker are exactly the nodes other than the root that are reachable     *)
(* from the root by successor edges, each on one such line, and there are  *)
(* at most LONG_TREE_THRESHOLD of them.                                    *)
(***************************************************************************)
C17_ExpandedIsReachable ==
    RenderOver =>
        LET expanded == UnmarkedIds(lines)
            reach    == ReachableFrom(all_technologies, ret.root) \ {ret.root}
        IN  /\ Elems(expanded) = reach
            /\ Len(expanded) = Cardinality(reach)
            /\ Len(expanded) <= LONG_TREE_THRESHOLD

\* a rendering that expanded as many nodes as the threshold allows
C17_Witness ==
    /\ RenderOver
    /\ Len(UnmarkedIds(lines)) = LONG_TREE_THRESHOLD
    /\ ret.root \notin overlong_tech_ids

(***************************************************************************)
(* C18: a search of detect_circular_dependencies comes to its end: while   *)
(* it runs it enters no node twice and has taken at most one step per      *)
(* successor edge and two per entity; when it has returned, every stored   *)
(* node was entered once, and the list of cycles is empty if and only if   *)
(* the successor graph has no cycle (no self-loop and no longer cycle).    *)
(***************************************************************************)
\* the nodes left after the nodes without a successor among them have been taken away,
\* again and again: none is left iff the graph has no cycle
Sinks(store, R) ==
    {x \in R : Elems(Get(store, x).unlocked_tech_ids) \cap R = {}}

RECURSIVE PruneRun(_, _, _)
PruneRun(store, R, k) ==
    IF Sinks(store, R) = {} THEN R
    ELSE IF k = 0 THEN R \ Sinks(store, R)
    ELSE PruneRun(store, PruneRun(store, R, k - 1), k - 1)

Acyclic(store) == PruneRun(store, Keys(store), LoopDepth) = {}

C18_DetectorTerminates ==
    /\ phase = "detect" =>
          /\ NoDuplicates(dfs_log)
          /\ dfs_steps <= NumEdges(all_technologies) + 2 * Len(all_technologies)
          /\ dfs_stack # <<>> \/ dfs_next <= Len(all_technologies) + 1
    /\ (phase = "reported" /\ ret = NoCall) =>
          /\ dfs_stack = <<>> /\ rec_stack = {}
          /\ NoDuplicates(dfs_log)
          /\ Elems(dfs_log) = Keys(all_technologies)
          /\ dfs_steps = NumEdges(all_technologies) + 2 * Len(all_technologies)
          /\ cycles = <<>> <=> Acyclic(all_technologies)

\* the search has returned a cycle that the node stored first is not on
C18_Witness ==
    /\ phase = "reported" /\ ret = NoCall
    /\ cycles # <<>>
    /\ \A k \in DOMAIN cycles : ~InSeq(all_technologies[1].tech_id, cycles[k])
    /\ all_technologies[1].unlocked_tech_ids # <<>>

====
